---- MODULE Spec2Model ----
(***************************************************************************)
(* kraken.lib.models: the format-fallback loader load_any and the          *)
(* recognizer wrapper TorchSeqRecognizer.                                  *)
(*                                                                         *)
(* Three specifications share the variables:                               *)
(*   Spec         load_any, statement by statement (lines 124-147)         *)
(*   SpecRec      the methods of one TorchSeqRecognizer over all lines     *)
(*   SpecPredict  predict / predict_string on one tracked line             *)
(***************************************************************************)
EXTENDS Integers, Sequences, FiniteSets

VARIABLES
    pc,          \* position in load_any: "idle", "L126", "L129", "L133", "L136", "L139", "L143", "returned", "raised"
    file,        \* the model file: which loaders accept it
    fname,       \* the local fname of load_any
    trainArg,    \* the train argument of load_any
    attempts,    \* loader calls made by the running load_any, in order, with the path each was given
    nn,          \* the network object (load_any's local nn, the recognizer's self.nn)
    kind,        \* load_any's local kind
    exc,         \* the exception load_any ended with ("none" otherwise)
    seq,         \* the TorchSeqRecognizer object, NoSeq before one exists
    lastCall,    \* the last method call on the recognizer and how it ended
    probe,       \* the line whose predict / predict_string results are tracked
    predictRet,        \* what predict(probe) returned last
    predictStringRet   \* what predict_string(probe) returned last

vars == <<pc, file, fname, trainArg, attempts, nn, kind, exc, seq, lastCall,
          probe, predictRet, predictStringRet>>

loadVars == <<pc, file, fname, trainArg, attempts, kind, exc>>
trackVars == <<probe, predictRet, predictStringRet>>

(***************************************************************************)
(* Bounds                                                                  *)
(***************************************************************************)
\* largest class count C of a network output (class 0 is the CTC blank)
MaxC == 3
\* largest height H (dimension 2) of a network output
MaxH == 2
\* largest number of timesteps W of a network output
MaxW == 2

(***************************************************************************)
(* load_any                                                                *)
(***************************************************************************)
Loaders == {"vgsl", "clstm", "pronn", "pyrnn"}

\* a file is described by the loaders that parse it; a loader that does not raises
Files == [Loaders -> BOOLEAN]

\* a path as given by the caller: does it start with ~, hold $VARS, is it relative
Paths == [tilde : BOOLEAN, envvar : BOOLEAN, relative : BOOLEAN]

expanduser(p) == [p EXCEPT !.tilde = FALSE]
expandvars(p) == [p EXCEPT !.envvar = FALSE]
abspath(p) == [p EXCEPT !.relative = FALSE]

NoPath == [tilde |-> FALSE, envvar |-> FALSE, relative |-> FALSE]
IsNormalized(p) == ~p.tilde /\ ~p.envvar /\ ~p.relative

Modes == {"train", "eval"}
Devices == {"cpu", "cuda:0"}

\* None
NoNet == [src |-> "None", codec |-> "None", mode |-> "None", device |-> "None"]

\* the object a TorchVGSLModel.load_* call returns: it carries its own codec
LoadedNet(l, m) == [src |-> l, codec |-> "codec_" \o l, mode |-> m, device |-> "cpu"]

NoSeq == [exists |-> FALSE, codec |-> "None", decoder |-> "None", train |-> FALSE,
          device |-> "None", kind |-> "", hasOutputs |-> FALSE,
          outputs |-> [shape |-> <<>>, path |-> <<>>]]

\* no line is tracked
NoLine == [c |-> 0, h |-> 0, path |-> <<>>]

NoCall == [op |-> "none", o |-> [shape |-> <<>>, path |-> <<>>], exc |-> "none",
           ret |-> <<>>, decoderCalled |-> FALSE, codecCalled |-> FALSE]

ModeOf(train) == IF train THEN "train" ELSE "eval"

\* __init__ that puts the network in eval mode whatever train is
InitNetAlwaysEval(net, train, device) == [net EXCEPT !.mode = "eval", !.device = device]

\* TorchSeqRecognizer.__init__: the network after nn.train() / nn.eval() and nn.to(device)
InitNet(net, train, device) == [net EXCEPT !.mode = ModeOf(train), !.device = device]

\* TorchSeqRecognizer.__init__: the fields of the new object
InitSeq(net, decoder, train, device) ==
    [exists |-> TRUE, codec |-> net.codec, decoder |-> decoder, train |-> train,
     device |-> device, kind |-> "", hasOutputs |-> FALSE,
     outputs |-> [shape |-> <<>>, path |-> <<>>]]

\* lines 124-125 and the call itself
LoadAnyCall(f, p, t) ==
    /\ pc \in {"idle", "returned", "raised"}
    /\ file' = f
    /\ fname' = p
    /\ trainArg' = t
    /\ nn' = NoNet
    /\ kind' = ""
    /\ attempts' = <<>>
    /\ exc' = "none"
    /\ seq' = NoSeq
    /\ pc' = "L126"
    /\ UNCHANGED <<lastCall, probe, predictRet, predictStringRet>>

\* line 126
Normalize ==
    /\ pc = "L126"
    /\ fname' = abspath(expandvars(expanduser(fname)))
    /\ pc' = "L129"
    /\ UNCHANGED <<file, trainArg, attempts, nn, kind, exc, seq, lastCall,
                   probe, predictRet, predictStringRet>>

\* the record of one loader call
Attempt(l) == [loader |-> l, path |-> fname]

\* lines 128-131: try load_model; on any exception go to the inner try
TryVgsl ==
    /\ pc = "L129"
    /\ attempts' = Append(attempts, Attempt("vgsl"))
    /\ IF file["vgsl"]
         THEN /\ \E m \in Modes : nn' = LoadedNet("vgsl", m)
              /\ kind' = "vgsl"
              /\ pc' = "L143"
         ELSE /\ pc' = "L133"
              /\ UNCHANGED <<nn, kind>>
    /\ UNCHANGED <<file, fname, trainArg, exc, seq, lastCall,
                   probe, predictRet, predictStringRet>>

\* lines 132-135: try load_clstm_model; on success control leaves the inner
\* try statement and reaches the try statement of line 138
TryClstm ==
    /\ pc = "L133"
    /\ attempts' = Append(attempts, Attempt("clstm"))
    /\ IF file["clstm"]
         THEN /\ \E m \in Modes : nn' = LoadedNet("clstm", m)
              /\ kind' = "clstm"
              /\ pc' = "L139"
         ELSE /\ pc' = "L136"
              /\ UNCHANGED <<nn, kind>>
    /\ UNCHANGED <<file, fname, trainArg, exc, seq, lastCall,
                   probe, predictRet, predictStringRet>>

\* lines 136-137: load_pronn_model is called inside an except clause and
\* outside any try block, so its exception leaves load_any
TryPronn ==
    /\ pc = "L136"
    /\ attempts' = Append(attempts, Attempt("pronn"))
    /\ IF file["pronn"]
         THEN /\ \E m \in Modes : nn' = LoadedNet("pronn", m)
              /\ kind' = "pronn"
              /\ pc' = "L139"
              /\ exc' = exc
         ELSE /\ pc' = "raised"
              /\ exc' = "pronn loader exception"
              /\ UNCHANGED <<nn, kind>>
    /\ UNCHANGED <<file, fname, trainArg, seq, lastCall,
                   probe, predictRet, predictStringRet>>

\* kind assigned before the loader call instead of after it
KindAssignedBeforeLoad(k) == "pyrnn"

\* what line 140 leaves in kind when load_pyrnn_model raised
KindAfterPyrnnFailure(k) == k

\* lines 138-142: try load_pyrnn_model; its exception is passed over
TryPyrnn ==
    /\ pc = "L139"
    /\ attempts' = Append(attempts, Attempt("pyrnn"))
    /\ IF file["pyrnn"]
         THEN /\ \E m \in Modes : nn' = LoadedNet("pyrnn", m)
              /\ kind' = "pyrnn"
         ELSE /\ kind' = KindAfterPyrnnFailure(kind)
              /\ nn' = nn
    /\ pc' = "L143"
    /\ UNCHANGED <<file, fname, trainArg, exc, seq, lastCall,
                   probe, predictRet, predictStringRet>>

\* lines 143-147
Finish ==
    /\ pc = "L143"
    /\ IF nn = NoNet
         THEN /\ pc' = "raised"
              /\ exc' = "KrakenInvalidModelException"
              /\ UNCHANGED <<nn, seq>>
         ELSE /\ nn' = InitNet(nn, trainArg, "cpu")
              /\ seq' = [InitSeq(nn, "greedy_decoder", trainArg, "cpu") EXCEPT !.kind = kind]
              /\ pc' = "returned"
              /\ exc' = exc
    /\ UNCHANGED <<file, fname, trainArg, attempts, kind, lastCall,
                   probe, predictRet, predictStringRet>>

Init ==
    /\ pc = "idle"
    /\ file = [l \in Loaders |-> FALSE]
    /\ fname = NoPath
    /\ trainArg = FALSE
    /\ attempts = <<>>
    /\ nn = NoNet
    /\ kind = ""
    /\ exc = "none"
    /\ seq = NoSeq
    /\ lastCall = NoCall
    /\ probe = NoLine
    /\ predictRet = <<>>
    /\ predictStringRet = <<>>

Next ==
    \/ \E f \in Files, p \in Paths, t \in BOOLEAN : LoadAnyCall(f, p, t)
    \/ Normalize
    \/ TryVgsl
    \/ TryClstm
    \/ TryPronn
    \/ TryPyrnn
    \/ Finish

Spec == Init /\ [][Next]_vars

(***************************************************************************)
(* TorchSeqRecognizer                                                      *)
(*                                                                         *)
(* The network, the decoder and the codec are external.  A line is         *)
(* described by what the network computes for it: an output of shape       *)
(* (1, C, H, W) whose content is kept as the best class of each timestep   *)
(* (class 0 is the blank).                                                 *)
(***************************************************************************)
Lines ==
    UNION {[c : {c}, h : 1..MaxH, path : [1..w -> 0..(c - 1)]] :
              c \in 1..MaxC, w \in 1..MaxW}

\* the lines fed in SpecRec, at every output shape: an empty line (all blank)
\* and a line holding the one character of class 1 on every timestep
SteadyLines ==
    {l \in Lines : l.path[1] <= 1 /\ \A i \in 1..Len(l.path) : l.path[i] = l.path[1]}

\* line 62-64: o = self.nn.nn(line.unsqueeze(0))
NetOut(line) == [shape |-> <<1, line.c, line.h, Len(line.path)>>, path |-> line.path]

\* the check made on dimension 3 (the width) instead of dimension 2
ForwardRaisesOnWidth(o) == o.shape[4] # 1

\* line 65: o.size(2) != 1 (dimension 2 is the third entry)
ForwardRaises(o) == o.shape[3] # 1

NotOne(d) == d # 1

\* squeeze() without an argument drops every dimension of size 1
Squeeze(shape) == SelectSeq(shape, NotOne)

\* line 67: o.data.squeeze().numpy(); the conversion itself is taken to
\* succeed (what numpy() accepts is the framework's concern)
ToArray(o) == [shape |-> Squeeze(o.shape), path |-> o.path]

\* self.outputs assigned before the shape check
StoredOutputsBeforeCheck(s, o) == [s EXCEPT !.hasOutputs = TRUE, !.outputs = ToArray(o)]

\* lines 65-67: the recognizer after forward met output o
StoredOutputs(s, o) ==
    IF ForwardRaises(o)
      THEN s
      ELSE [s EXCEPT !.hasOutputs = TRUE, !.outputs = ToArray(o)]

\* the last timestep of the run of equal classes that starts at t
RunEnd(path, t) ==
    CHOOSE j \in t..Len(path) :
        /\ \A i \in t..j : path[i] = path[t]
        /\ j = Len(path) \/ path[j + 1] # path[t]

\* greedy CTC decoding: one (class, start, end, confidence) tuple per run of
\* a class other than the blank; confidences are not modelled
RECURSIVE GreedyFrom(_, _)
GreedyFrom(path, t) ==
    IF t > Len(path)
      THEN <<>>
      ELSE LET e == RunEnd(path, t)
           IN  (IF path[t] = 0 THEN <<>> ELSE << <<path[t], t - 1, e, 1>> >>)
                   \o GreedyFrom(path, e + 1)

greedy_decoder(a) == GreedyFrom(a.path, 1)

\* the codec's text of a class
L2C(k) == <<"a", "b", "c", "d", "e", "f", "g", "h">>[k]

\* codec.decode: classes to text, positions and confidences kept
codec_decode(locs) ==
    [i \in 1..Len(locs) |-> <<L2C(locs[i][1]), locs[i][2], locs[i][3], locs[i][4]>>]

\* lines 77-78: what predict returns for the array forward returned
PredictValue(a) == codec_decode(greedy_decoder(a))

\* the join taken over the decoding back to front
PredictStringReversed(a) ==
    LET decoding == codec_decode(greedy_decoder(a))
    IN  [i \in 1..Len(decoding) |-> decoding[Len(decoding) + 1 - i][1]]

\* lines 86-88: ''.join(x[0] for x in decoding), a string as its characters
PredictStringValue(a) ==
    LET decoding == codec_decode(greedy_decoder(a))
    IN  [i \in 1..Len(decoding) |-> decoding[i][1]]

\* line 97
PredictLabelsValue(a) == greedy_decoder(a)

CallRecord(op, o, value, usesDecoder, usesCodec) ==
    [op |-> op, o |-> o,
     exc |-> IF ForwardRaises(o) THEN "KrakenInputException" ELSE "none",
     ret |-> IF ForwardRaises(o) THEN <<>> ELSE <<value>>,
     decoderCalled |-> usesDecoder /\ ~ForwardRaises(o),
     codecCalled |-> usesCodec /\ ~ForwardRaises(o)]

\* TorchSeqRecognizer(nn, train=t): a new recognizer around the network
Construct(t) ==
    /\ seq.exists
    /\ nn' = InitNet(nn, t, "cpu")
    /\ seq' = InitSeq(nn, "greedy_decoder", t, "cpu")
    /\ lastCall' = [NoCall EXCEPT !.op = "__init__"]
    /\ UNCHANGED <<loadVars, trackVars>>

\* lines 49-54
To(d) ==
    /\ seq.exists
    /\ seq' = [seq EXCEPT !.device = d]
    /\ nn' = [nn EXCEPT !.device = d]
    /\ lastCall' = [NoCall EXCEPT !.op = "to"]
    /\ UNCHANGED <<loadVars, trackVars>>

\* lines 56-68
Forward(line) ==
    /\ seq.exists
    /\ LET o == NetOut(line)
       IN  /\ seq' = StoredOutputs(seq, o)
           /\ lastCall' = CallRecord("forward", o, ToArray(o), FALSE, FALSE)
    /\ UNCHANGED <<loadVars, nn, trackVars>>

\* lines 70-78
Predict(line) ==
    /\ seq.exists
    /\ LET o == NetOut(line)
       IN  /\ seq' = StoredOutputs(seq, o)
           /\ lastCall' = CallRecord("predict", o, PredictValue(ToArray(o)), TRUE, TRUE)
    /\ predictRet' = IF line = probe THEN lastCall'.ret ELSE predictRet
    /\ UNCHANGED <<loadVars, nn, probe, predictStringRet>>

\* lines 80-88
PredictString(line) ==
    /\ seq.exists
    /\ LET o == NetOut(line)
       IN  /\ seq' = StoredOutputs(seq, o)
           /\ lastCall' = CallRecord("predict_string", o, PredictStringValue(ToArray(o)),
                                     TRUE, TRUE)
    /\ predictStringRet' = IF line = probe THEN lastCall'.ret ELSE predictStringRet
    /\ UNCHANGED <<loadVars, nn, probe, predictRet>>

\* lines 90-97
PredictLabels(line) ==
    /\ seq.exists
    /\ LET o == NetOut(line)
       IN  /\ seq' = StoredOutputs(seq, o)
           /\ lastCall' = CallRecord("predict_labels", o, PredictLabelsValue(ToArray(o)),
                                     TRUE, FALSE)
    /\ UNCHANGED <<loadVars, nn, trackVars>>

\* the state load_any leaves for a file only load_model parses, train=False
InitRec ==
    /\ pc = "returned"
    /\ file = [l \in Loaders |-> l = "vgsl"]
    /\ fname = NoPath
    /\ trainArg = FALSE
    /\ attempts = <<[loader |-> "vgsl", path |-> NoPath]>>
    /\ \E m \in Modes :
          /\ nn = InitNet(LoadedNet("vgsl", m), FALSE, "cpu")
          /\ seq = [InitSeq(LoadedNet("vgsl", m), "greedy_decoder", FALSE, "cpu")
                      EXCEPT !.kind = "vgsl"]
    /\ kind = "vgsl"
    /\ exc = "none"
    /\ lastCall = NoCall
    /\ probe = NoLine
    /\ predictRet = <<>>
    /\ predictStringRet = <<>>

NextRec ==
    \/ \E t \in BOOLEAN : Construct(t)
    \/ \E d \in Devices : To(d)
    \/ \E line \in SteadyLines : Forward(line)
    \/ \E line \in SteadyLines : Predict(line)
    \/ \E line \in SteadyLines : PredictString(line)
    \/ \E line \in SteadyLines : PredictLabels(line)

SpecRec == InitRec /\ [][NextRec]_vars

\* as InitRec, with one line whose results are tracked
InitPredict ==
    /\ pc = "returned"
    /\ file = [l \in Loaders |-> l = "vgsl"]
    /\ fname = NoPath
    /\ trainArg = FALSE
    /\ attempts = <<[loader |-> "vgsl", path |-> NoPath]>>
    /\ \E m \in Modes :
          /\ nn = InitNet(LoadedNet("vgsl", m), FALSE, "cpu")
          /\ seq = [InitSeq(LoadedNet("vgsl", m), "greedy_decoder", FALSE, "cpu")
                      EXCEPT !.kind = "vgsl"]
    /\ kind = "vgsl"
    /\ exc = "none"
    /\ lastCall = NoCall
    /\ probe \in Lines
    /\ predictRet = <<>>
    /\ predictStringRet = <<>>

NextPredict ==
    \/ \E d \in Devices : To(d)
    \/ Forward(probe)
    \/ Predict(probe)
    \/ PredictString(probe)
    \/ PredictLabels(probe)

SpecPredict == InitPredict /\ [][NextPredict]_vars

(***************************************************************************)
(* Properties                                                              *)
(***************************************************************************)
\* the fallback order: the modern loader, then the three legacy loaders
LoaderOrder == <<"vgsl", "clstm", "pronn", "pyrnn">>

Attempted == {attempts[i].loader : i \in 1..Len(attempts)}
Ended == pc \in {"returned", "raised"}
SomeLoaderAccepts == \E l \in Loaders : file[l]

\* the first loader, in the order vgsl, clstm, pronn, pyrnn, that parses the file
EarliestAccepting ==
    LoaderOrder[CHOOSE i \in 1..4 :
                    /\ file[LoaderOrder[i]]
                    /\ \A j \in 1..(i - 1) : ~file[LoaderOrder[j]]]

\* C1: whenever at least one loader parses the file, load_any returns a
\* recognizer whose kind is the earliest such loader in the order vgsl, clstm,
\* pronn, pyrnn.
C1_KindIsEarliestAccepting ==
    (Ended /\ SomeLoaderAccepts) =>
        (pc = "returned" /\ seq.exists /\ seq.kind = EarliestAccepting)

\* C2: when no loader parses the file, load_any ends by raising
\* KrakenInvalidModelException, no other exception, and returns no recognizer.
C2_AllFailRaisesInvalidModel ==
    (Ended /\ ~SomeLoaderAccepts) =>
        (pc = "raised" /\ exc = "KrakenInvalidModelException" /\ ~seq.exists)

\* C3: the load attempts are a strict ordered fallback: every attempt is made
\* with the normalized path, the i-th attempt is the i-th loader of the order
\* (so none is retried and none is tried before its predecessors), and every
\* loader attempted before another one failed.
C3_StrictOrderedFallback ==
    \A i \in 1..Len(attempts) :
        /\ IsNormalized(attempts[i].path)
        /\ attempts[i].loader = LoaderOrder[i]
        /\ \A j \in 1..(i - 1) : ~file[attempts[j].loader]

\* C4: whenever load_any ends with an exception, all four loaders were
\* attempted, none parsed the file, and the exception is the invalid-model
\* error, not a loader's own.
C4_ErrorOnlyAfterAllFour ==
    pc = "raised" =>
        /\ Attempted = Loaders
        /\ ~SomeLoaderAccepts
        /\ exc = "KrakenInvalidModelException"

\* C10: nn and kind are assigned together: kind always names the loader that
\* produced nn, and a returned recognizer's kind is one of the four loader
\* names, of a loader that was attempted and parsed the file, and whose
\* return value is the recognizer's network.
C10_KindNamesTheLoaderOfNn ==
    /\ kind = (IF nn = NoNet THEN "" ELSE nn.src)
    /\ pc = "returned" =>
          /\ seq.kind = nn.src
          /\ seq.kind \in Loaders
          /\ seq.kind \in Attempted
          /\ file[seq.kind]

\* a recognizer returned for a file that load_clstm_model parsed and
\* load_pyrnn_model, tried after it, rejected
C10_Witness ==
    /\ pc = "returned"
    /\ seq.kind = "clstm"
    /\ "pyrnn" \in Attempted
    /\ ~file["pyrnn"]

C6_StringIsConcatenationOfTexts ==
    (predictRet # <<>> /\ predictStringRet # <<>>) =>
        /\ Len(predictStringRet[1]) = Len(predictRet[1])
        /\ \A i \in 1..Len(predictRet[1]) : predictStringRet[1][i] = predictRet[1][i][1]

\* both calls returned for a line that decodes to two different characters
C6_Witness ==
    /\ predictRet # <<>>
    /\ predictStringRet # <<>>
    /\ Len(predictRet[1]) = 2
    /\ predictRet[1][1][1] # predictRet[1][2][1]

PredictOps == {"predict", "predict_string", "predict_labels"}

\* C8: a predict, predict_string or predict_labels call in which forward
\* raises KrakenInputException ends with that exception, calls neither the
\* decoder nor codec.decode, returns nothing, and leaves the recognizer
\* (outputs, device, codec, decoder, train flag) and the network as they were.
C8_NoPartialResultOnFailure ==
    [][(lastCall'.op \in PredictOps /\ lastCall'.o.shape[3] # 1) =>
          /\ lastCall'.exc = "KrakenInputException"
          /\ ~lastCall'.decoderCalled
          /\ ~lastCall'.codecCalled
          /\ lastCall'.ret = <<>>
          /\ seq' = seq
          /\ nn' = nn]_vars

\* a predict call failed on a recognizer that holds the outputs of an
\* earlier forward pass
C8_Witness ==
    /\ lastCall.op = "predict"
    /\ lastCall.exc = "KrakenInputException"
    /\ seq.hasOutputs
    /\ seq.device = "cuda:0"

\* C9: for every output whose dimension 2 is 1, forward returns a
\* two-dimensional array with one axis of length W and one of length C.
C9_ForwardReturnsTwoAxes ==
    (lastCall.op = "forward" /\ lastCall.exc = "none") =>
        /\ Len(lastCall.ret[1].shape) = 2
        /\ \/ lastCall.ret[1].shape = <<lastCall.o.shape[2], lastCall.o.shape[4]>>
           \/ lastCall.ret[1].shape = <<lastCall.o.shape[4], lastCall.o.shape[2]>>

====
